---- MODULE Spec2Model ----
(***************************************************************************)
(* Model of the Z3-backed coherence verifier (formal_verifier/src/lib.rs). *)
(*                                                                         *)
(* A CoherenceVerifier owns a solver and a registry `predicates` that maps *)
(* a formatted predicate name to its boolean constant.  Its two entry      *)
(* points, verify_statements and verify_reasoning_chain, are the actions   *)
(* of the model.  The satisfiability oracle is modelled by its semantics   *)
(* on propositional terms; whether it answers a query or gives up          *)
(* (Unknown) is a choice of the environment, made per query.               *)
(***************************************************************************)
EXTENDS Naturals, Sequences, FiniteSets, TLC

VARIABLES
    predicates,   \* CoherenceVerifier.predicates: formatted name -> constant
    solver,       \* assertions held by CoherenceVerifier.solver, in order
    call,         \* the entry point last called, with its arguments
    verdicts,     \* oracle verdicts returned during the last call, in order
    pairChecks,   \* one record per check_pair_contradiction of the last call
    result,       \* what the last call returned
    localized     \* history: a call before the last one ran find_contradictions

vars == <<predicates, solver, call, verdicts, pairChecks, result, localized>>

(***************************************************************************)
(* Bounds of the model: the number of statements one call is given (the    *)
(* premises and the conclusion of a reasoning chain together), on a        *)
(* verifier called any number of times and on one called once.             *)
(***************************************************************************)
MaxStmts == 2

MaxStmtsOnce == 3

(***************************************************************************)
(* Data model (lib.rs 14-42).                                              *)
(***************************************************************************)
\* Option<T>: None is the empty sequence, Some(v) is <<v>>.
None == <<>>
Some(v) == <<v>>

\* struct Predicate
Predicate(name, args, negated) ==
    [name |-> name, args |-> args, negated |-> negated]

\* struct Statement
Statement(id, text, preds) == [id |-> id, text |-> text, predicates |-> preds]

\* A faulty record: statement2 is filled from stmt1 as well.
ContradictionSameId(stmt1, stmt2) ==
    [statement1 |-> stmt1.id,
     statement2 |-> stmt1.id,
     reason |-> "Statements are mutually exclusive",
     formal_proof |-> "Z3 proved (stmt1 AND stmt2) is unsatisfiable"]

\* struct Contradiction, as check_pair_contradiction fills it in
Contradiction(stmt1, stmt2) ==
    [statement1 |-> stmt1.id,
     statement2 |-> stmt2.id,
     reason |-> "Statements are mutually exclusive",
     formal_proof |-> "Z3 proved (stmt1 AND stmt2) is unsatisfiable"]

\* struct VerificationResult; confidence is 1 for 1.0 and 0 for 0.0
VerificationResult(is_consistent, proof, contradictions, confidence) ==
    [is_consistent |-> is_consistent, proof |-> proof,
     contradictions |-> contradictions, confidence |-> confidence]

(***************************************************************************)
(* Z3 terms.  Every term is a record of one shape: op is "const", "true",  *)
(* "not" or "and"; name is the constant's name; args are the sub-terms.    *)
(***************************************************************************)
BoolConst(name) == [op |-> "const", name |-> name, args |-> <<>>]
BoolTrue == [op |-> "true", name |-> "", args |-> <<>>]
BoolNot(f) == [op |-> "not", name |-> "", args |-> <<f>>]
BoolAnd(f, g) == [op |-> "and", name |-> "", args |-> <<f, g>>]

RECURSIVE ConstNames(_)
ConstNames(f) ==
    IF f.op = "const" THEN {f.name}
    ELSE UNION { ConstNames(f.args[k]) : k \in DOMAIN f.args }

\* The value of a term under the assignment that makes exactly the
\* constants named in trueNames true.
RECURSIVE Eval(_, _)
Eval(f, trueNames) ==
    CASE f.op = "const" -> f.name \in trueNames
      [] f.op = "true" -> TRUE
      [] f.op = "not" -> ~Eval(f.args[1], trueNames)
      [] f.op = "and" -> Eval(f.args[1], trueNames) /\ Eval(f.args[2], trueNames)

Range(seq) == { seq[k] : k \in DOMAIN seq }

\* Some assignment satisfies every asserted term.
SatisfiedOver(names, assertions) ==
    \E trueNames \in SUBSET names :
        \A k \in DOMAIN assertions : Eval(assertions[k], trueNames)

Satisfiable(assertions) ==
    SatisfiedOver(UNION { ConstNames(f) : f \in Range(assertions) }, assertions)

\* Solver::check: the oracle decides the assertions, or gives up.
SolverCheck(assertions, definite) ==
    IF ~definite THEN "Unknown"
    ELSE IF Satisfiable(assertions) THEN "Sat" ELSE "Unsat"

\* Solver::new(context): a solver holding no assertion
NewSolver == <<>>

\* A faulty reset: the assertions of the earlier call are kept.
SolverResetKeeps(assertions) == assertions

\* solver.reset()
SolverReset(assertions) == NewSolver

\* A faulty assert: the new assertion takes the place of the earlier ones.
SolverAssertReplaces(assertions, expr) == <<expr>>

\* solver.assert(expr)
SolverAssert(assertions, expr) == Append(assertions, expr)

(***************************************************************************)
(* The registry (lib.rs 47, 56, 64, 191).                                  *)
(***************************************************************************)
\* HashMap::new()
EmptyRegistry == [n \in {} |-> BoolTrue]

\* A faulty clear: the entries of the earlier call are kept.
PredicatesClearKeeps(registry) == registry

\* self.predicates.clear()
PredicatesClear(registry) == EmptyRegistry

(***************************************************************************)
(* statement_to_z3 (lib.rs 108-141).                                       *)
(***************************************************************************)
\* args.join(",")
RECURSIVE Join(_)
Join(args) ==
    IF Len(args) = 0 THEN ""
    ELSE IF Len(args) = 1 THEN args[1]
    ELSE args[1] \o "," \o Join(Tail(args))

\* A faulty key: the negation flag is part of the formatted name.
FormatSigned(predicate) ==
    (IF predicate.negated THEN "!" ELSE "") \o predicate.name
        \o "(" \o Join(predicate.args) \o ")"

\* format!("{}({})", predicate.name, predicate.args.join(","))
Format(predicate) == predicate.name \o "(" \o Join(predicate.args) \o ")"

\* The registry after pred_name was looked up: an existing entry is kept, a
\* missing one is inserted as a new constant of that name.
Intern(registry, pred_name) ==
    IF pred_name \in DOMAIN registry THEN registry
    ELSE registry @@ (pred_name :> BoolConst(pred_name))

\* The conjunct pushed for one predicate, z3_pred being its constant.
Literal(z3_pred, negated) == IF negated THEN BoolNot(z3_pred) ELSE z3_pred

\* The loop over statement.predicates, from the registry and the conjuncts
\* built so far: the registry and the conjuncts at its end.
RECURSIVE Conjuncts(_, _, _)
Conjuncts(registry, conjuncts, preds) ==
    IF preds = <<>> THEN [registry |-> registry, conjuncts |-> conjuncts]
    ELSE LET pred_name == Format(Head(preds))
             interned == Intern(registry, pred_name)
         IN  Conjuncts(interned,
                       Append(conjuncts,
                              Literal(interned[pred_name], Head(preds).negated)),
                       Tail(preds))

\* A faulty combination: no conjunct at all yields the constant false.
ConjoinEmptyFalse(conjuncts) ==
    IF conjuncts = <<>> THEN BoolNot(BoolTrue)
    ELSE IF Len(conjuncts) = 1 THEN conjuncts[1]
    ELSE BoolAnd(conjuncts[1], conjuncts[2])

\* Combine predicates with AND, left to right.
RECURSIVE AndAll(_, _)
AndAll(acc, rest) ==
    IF rest = <<>> THEN acc
    ELSE AndAll(BoolAnd(acc, Head(rest)), Tail(rest))

Conjoin(conjuncts) ==
    IF conjuncts = <<>> THEN BoolTrue
    ELSE IF Len(conjuncts) = 1 THEN conjuncts[1]
    ELSE AndAll(conjuncts[1], Tail(conjuncts))

\* statement_to_z3: the term it returns and the registry it leaves behind.
StatementToZ3(registry, statement) ==
    LET looped == Conjuncts(registry, <<>>, statement.predicates)
    IN  [expr |-> Conjoin(looped.conjuncts), registry |-> looped.registry]

(***************************************************************************)
(* find_contradictions and check_pair_contradiction (lib.rs 144-185).      *)
(***************************************************************************)
\* The index pairs (i, j), i < j, in the order of the two nested loops.
RECURSIVE PairSeq(_, _, _)
PairSeq(i, j, n) ==
    IF i > n THEN <<>>
    ELSE IF j > n THEN PairSeq(i + 1, i + 2, n)
    ELSE <<(<<i, j>>)>> \o PairSeq(i, j + 1, n)

\* A faulty outer loop: the inner loop of the first statement starts one
\* statement late.
PairsFromThird(n) == PairSeq(1, 3, n)

\* A faulty localizer: every pair is checked a second time.
PairsRetried(n) == PairSeq(1, 2, n) \o PairSeq(1, 2, n)

Pairs(n) == PairSeq(1, 2, n)

\* A faulty match: every verdict but Sat yields a Contradiction.
PairOutcomeUnlessSat(verdict, stmt1, stmt2) ==
    IF verdict # "Sat" THEN Some(Contradiction(stmt1, stmt2)) ELSE None

\* The match on temp_solver.check()
PairOutcome(verdict, stmt1, stmt2) ==
    IF verdict = "Unsat" THEN Some(Contradiction(stmt1, stmt2)) ELSE None

\* A faulty pair check: the registry is cleared before the pair is built.
CheckPairContradictionCleared(registry, stmt1, stmt2, definite) ==
    LET z3_stmt1 == StatementToZ3(PredicatesClear(registry), stmt1)
        z3_stmt2 == StatementToZ3(z3_stmt1.registry, stmt2)
        temp_solver == SolverAssert(SolverAssert(NewSolver, z3_stmt1.expr),
                                    z3_stmt2.expr)
        verdict == SolverCheck(temp_solver, definite)
    IN  [registry |-> z3_stmt2.registry,
         temp_solver |-> temp_solver,
         verdict |-> verdict,
         contradiction |-> PairOutcome(verdict, stmt1, stmt2)]

\* check_pair_contradiction: a fresh solver, both statements built against
\* the verifier's registry and asserted, one query.
CheckPairContradiction(registry, stmt1, stmt2, definite) ==
    LET z3_stmt1 == StatementToZ3(registry, stmt1)
        z3_stmt2 == StatementToZ3(z3_stmt1.registry, stmt2)
        temp_solver == SolverAssert(SolverAssert(NewSolver, z3_stmt1.expr),
                                    z3_stmt2.expr)
        verdict == SolverCheck(temp_solver, definite)
    IN  [registry |-> z3_stmt2.registry,
         temp_solver |-> temp_solver,
         verdict |-> verdict,
         contradiction |-> PairOutcome(verdict, stmt1, stmt2)]

\* find_contradictions from the k-th pair of `pairs` on.  The global query
\* is query 0 and the k-th pair check is query k; `undecided` holds the
\* queries the oracle gives up on.
RECURSIVE FindFrom(_, _, _, _, _)
FindFrom(registry, statements, pairs, k, undecided) ==
    IF k > Len(pairs)
    THEN [registry |-> registry, contradictions |-> <<>>, checks |-> <<>>]
    ELSE LET i == pairs[k][1]
             j == pairs[k][2]
             one == CheckPairContradiction(registry, statements[i],
                                           statements[j], k \notin undecided)
             rest == FindFrom(one.registry, statements, pairs, k + 1, undecided)
         IN  [checks |-> <<[i |-> i, j |-> j,
                            before |-> DOMAIN registry,
                            after |-> DOMAIN one.registry,
                            temp_solver |-> one.temp_solver,
                            verdict |-> one.verdict]>> \o rest.checks,
              contradictions |-> one.contradiction \o rest.contradictions,
              registry |-> rest.registry]

\* A faulty localizer: the loops stop after the first two statements.
FindContradictionsFirstPair(registry, statements, undecided) ==
    FindFrom(registry, statements,
             Pairs(IF Len(statements) < 2 THEN Len(statements) ELSE 2), 1,
             undecided)

FindContradictions(registry, statements, undecided) ==
    FindFrom(registry, statements, Pairs(Len(statements)), 1, undecided)

(***************************************************************************)
(* verify_statements (lib.rs 61-105).                                      *)
(***************************************************************************)
\* The loop that builds and asserts each statement.
RECURSIVE AssertStatements(_, _, _)
AssertStatements(registry, assertions, statements) ==
    IF statements = <<>> THEN [registry |-> registry, solver |-> assertions]
    ELSE LET z3_expr == StatementToZ3(registry, Head(statements))
         IN  AssertStatements(z3_expr.registry,
                              SolverAssert(assertions, z3_expr.expr),
                              Tail(statements))

\* Faulty arms: the Unsat arm reports is_consistent = true.
StatementsResultConsistentOnUnsat(verdict, contradictions) ==
    CASE verdict = "Sat" ->
             VerificationResult(TRUE, Some("Z3 found satisfying model"), <<>>, 1)
      [] verdict = "Unsat" ->
             VerificationResult(TRUE, Some("Z3 proved unsatisfiability"),
                                contradictions, 1)
      [] verdict = "Unknown" ->
             VerificationResult(FALSE, None, <<>>, 0)

\* The three arms of the match on the global verdict.
StatementsResult(verdict, contradictions) ==
    CASE verdict = "Sat" ->
             VerificationResult(TRUE, Some("Z3 found satisfying model"), <<>>, 1)
      [] verdict = "Unsat" ->
             VerificationResult(FALSE, Some("Z3 proved unsatisfiability"),
                                contradictions, 1)
      [] verdict = "Unknown" ->
             VerificationResult(FALSE, None, <<>>, 0)

\* A faulty match: every verdict but Sat runs find_contradictions.
LocalizesUnlessSat(verdict) == verdict # "Sat"

\* The arm that calls find_contradictions.
Localizes(verdict) == verdict = "Unsat"

\* verify_statements after its first two lines, `registry` and `assertions`
\* being what clear() and reset() left: what the call returns and the
\* verifier state it leaves behind.
StatementsRun(registry, assertions, statements, undecided) ==
    LET asserted == AssertStatements(registry, assertions, statements)
        verdict == SolverCheck(asserted.solver, 0 \notin undecided)
        found == IF Localizes(verdict)
                 THEN FindContradictions(asserted.registry, statements, undecided)
                 ELSE [registry |-> asserted.registry,
                       contradictions |-> <<>>, checks |-> <<>>]
    IN  [predicates |-> found.registry,
         solver |-> asserted.solver,
         verdicts |-> << verdict >> \o [k \in DOMAIN found.checks |->
                                          found.checks[k].verdict],
         pairChecks |-> found.checks,
         result |-> StatementsResult(verdict, found.contradictions)]

\* The whole call, from the verifier state (registry0, solver0).
VerifyStatements(registry0, solver0, statements, undecided) ==
    StatementsRun(PredicatesClear(registry0), SolverReset(solver0),
                  statements, undecided)

(***************************************************************************)
(* verify_reasoning_chain (lib.rs 188-243).                                *)
(***************************************************************************)
\* The loop that builds premise_exprs.
RECURSIVE BuildPremises(_, _, _)
BuildPremises(registry, premise_exprs, premises) ==
    IF premises = <<>> THEN [registry |-> registry, exprs |-> premise_exprs]
    ELSE LET expr == StatementToZ3(registry, Head(premises))
         IN  BuildPremises(expr.registry, Append(premise_exprs, expr.expr),
                           Tail(premises))

\* The loop that asserts every premise_expr.
RECURSIVE AssertAll(_, _)
AssertAll(assertions, exprs) ==
    IF exprs = <<>> THEN assertions
    ELSE AssertAll(SolverAssert(assertions, Head(exprs)), Tail(exprs))

\* A faulty negation: the conclusion is asserted as it is.
NegateConclusionDropped(conclusion_expr) == conclusion_expr

\* conclusion_expr.not()
NegateConclusion(conclusion_expr) == BoolNot(conclusion_expr)

\* Faulty arms: the Unknown arm reports confidence 1.0.
ChainResultSureOnUnknown(verdict) ==
    CASE verdict = "Unsat" ->
             VerificationResult(TRUE,
                 Some("Z3 proved premises logically entail conclusion"), <<>>, 1)
      [] verdict = "Sat" ->
             VerificationResult(FALSE,
                 Some("Z3 found counterexample where premises are true but conclusion is false"),
                 <<>>, 1)
      [] verdict = "Unknown" ->
             VerificationResult(FALSE, None, <<>>, 1)

\* Faulty arms: the Unsat arm reports the chain invalid.
ChainResultInvalidOnUnsat(verdict) ==
    CASE verdict = "Unsat" ->
             VerificationResult(FALSE,
                 Some("Z3 proved premises logically entail conclusion"), <<>>, 1)
      [] verdict = "Sat" ->
             VerificationResult(FALSE,
                 Some("Z3 found counterexample where premises are true but conclusion is false"),
                 <<>>, 1)
      [] verdict = "Unknown" ->
             VerificationResult(FALSE, None, <<>>, 0)

\* The three arms of the match on the verdict.
ChainResult(verdict) ==
    CASE verdict = "Unsat" ->
             VerificationResult(TRUE,
                 Some("Z3 proved premises logically entail conclusion"), <<>>, 1)
      [] verdict = "Sat" ->
             VerificationResult(FALSE,
                 Some("Z3 found counterexample where premises are true but conclusion is false"),
                 <<>>, 1)
      [] verdict = "Unknown" ->
             VerificationResult(FALSE, None, <<>>, 0)

\* A faulty chain: the premises are searched for contradictory pairs and
\* the pairs found are returned.
ChainRunLocalizing(registry, assertions, premises, conclusion, undecided) ==
    LET built == BuildPremises(registry, <<>>, premises)
        conclusion_expr == StatementToZ3(built.registry, conclusion)
        asserted == SolverAssert(AssertAll(assertions, built.exprs),
                                 NegateConclusion(conclusion_expr.expr))
        verdict == SolverCheck(asserted, 0 \notin undecided)
        found == FindContradictions(conclusion_expr.registry, premises, {})
    IN  [predicates |-> found.registry,
         solver |-> asserted,
         verdicts |-> << verdict >>,
         pairChecks |-> <<>>,
         result |-> [ChainResult(verdict) EXCEPT
                        !.contradictions = found.contradictions]]

\* verify_reasoning_chain after its first two lines.
ChainRun(registry, assertions, premises, conclusion, undecided) ==
    LET built == BuildPremises(registry, <<>>, premises)
        conclusion_expr == StatementToZ3(built.registry, conclusion)
        asserted == SolverAssert(AssertAll(assertions, built.exprs),
                                 NegateConclusion(conclusion_expr.expr))
        verdict == SolverCheck(asserted, 0 \notin undecided)
    IN  [predicates |-> conclusion_expr.registry,
         solver |-> asserted,
         verdicts |-> << verdict >>,
         pairChecks |-> <<>>,
         result |-> ChainResult(verdict)]

\* The whole call, from the verifier state (registry0, solver0).
VerifyReasoningChain(registry0, solver0, premises, conclusion, undecided) ==
    ChainRun(PredicatesClear(registry0), SolverReset(solver0),
             premises, conclusion, undecided)

(***************************************************************************)
(* Inputs the callers draw from.                                           *)
(***************************************************************************)
\* P("a","b") and P("a,b") differ only in how args is split; Q() shares
\* nothing with them.
P_a_b == Predicate("P", <<"a", "b">>, FALSE)
NotP_a_b == Predicate("P", <<"a", "b">>, TRUE)
NotP_ab == Predicate("P", <<"a,b">>, TRUE)
Q == Predicate("Q", <<>>, FALSE)

\* The predicate lists a statement is given.
PredicateLists ==
    { <<>>, <<P_a_b>>, <<NotP_a_b>>, <<NotP_ab>>,
      <<P_a_b, Q>>, <<P_a_b, NotP_a_b>> }

\* Statement lists as main.rs builds them: the ids are prefix0, prefix1, ...
StatementLists(prefix, maxLen) ==
    UNION { { [k \in 1..n |-> Statement(prefix \o ToString(k - 1), "", body[k])] :
                  body \in [1..n -> PredicateLists] } : n \in 0..maxLen }

StatementInputs == StatementLists("stmt_", MaxStmts)

PremiseInputs == StatementLists("premise_", MaxStmts - 1)

ConclusionInputs == { Statement("conclusion", "", l) : l \in PredicateLists }

\* What the oracle may do during verify_statements(statements): give up on
\* the global query (0), or decide it and give up on any of the pair checks
\* (1, 2, ...) that follow an Unsat verdict.
PairQueries(statements) ==
    IF Localizes(SolverCheck(
           AssertStatements(EmptyRegistry, NewSolver, statements).solver, TRUE))
    THEN 1..Len(Pairs(Len(statements))) ELSE {}

Oracles == [statements \in StatementInputs |->
               {{0}} \cup SUBSET PairQueries(statements)] @@ <<>>

ChainOracles == {{}, {0}}

(***************************************************************************)
(* The runs of both entry points from a registry and a solver that hold    *)
(* nothing, worked out once per input (@@ <<>> makes the function a table  *)
(* of values instead of a rule applied at every use).                      *)
(***************************************************************************)
StatementsRuns ==
    [statements \in StatementInputs |->
        [undecided \in Oracles[statements] |->
            StatementsRun(EmptyRegistry, NewSolver, statements, undecided)]
            @@ <<>>] @@ <<>>

ChainRuns ==
    [premises \in PremiseInputs |->
        [conclusion \in ConclusionInputs |->
            [undecided \in ChainOracles |->
                ChainRun(EmptyRegistry, NewSolver, premises, conclusion,
                         undecided)] @@ <<>>] @@ <<>>] @@ <<>>

\* verify_statements on an input of StatementInputs: the run worked out
\* above when clear() and reset() leave nothing, the run from what they
\* leave otherwise.
VerifyStatementsOn(registry0, solver0, statements, undecided) ==
    IF /\ PredicatesClear(registry0) = EmptyRegistry
       /\ SolverReset(solver0) = NewSolver
    THEN StatementsRuns[statements][undecided]
    ELSE VerifyStatements(registry0, solver0, statements, undecided)

VerifyReasoningChainOn(registry0, solver0, premises, conclusion, undecided) ==
    IF /\ PredicatesClear(registry0) = EmptyRegistry
       /\ SolverReset(solver0) = NewSolver
    THEN ChainRuns[premises][conclusion][undecided]
    ELSE VerifyReasoningChain(registry0, solver0, premises, conclusion,
                              undecided)

(***************************************************************************)
(* The state machine: a verifier is constructed, then called any number of *)
(* times.                                                                  *)
(***************************************************************************)
Init ==
    /\ predicates = EmptyRegistry
    /\ solver = NewSolver
    /\ call = [op |-> "new", statements |-> <<>>, conclusion |-> None]
    /\ verdicts = <<>>
    /\ pairChecks = <<>>
    /\ result = None
    /\ localized = FALSE

\* The call that returned last ran find_contradictions.
Localized ==
    /\ call.op \in {"verify_statements", "Test 1", "Test 2",
                  "verify_function", "run_test_suite"}
    /\ Localizes(verdicts[1])

Return(run) ==
    /\ predicates' = run.predicates
    /\ solver' = run.solver
    /\ verdicts' = run.verdicts
    /\ pairChecks' = run.pairChecks
    /\ result' = Some(run.result)
    /\ localized' = (localized \/ Localized)

VerifyStatementsCall ==
    \E statements \in StatementInputs :
        \E undecided \in Oracles[statements] :
            /\ call' = [op |-> "verify_statements", statements |-> statements,
                        conclusion |-> None]
            /\ Return(VerifyStatementsOn(predicates, solver, statements,
                                         undecided))

VerifyReasoningChainCall ==
    \E premises \in PremiseInputs :
        \E conclusion \in ConclusionInputs :
            \E undecided \in ChainOracles :
                /\ call' = [op |-> "verify_reasoning_chain",
                            statements |-> premises,
                            conclusion |-> Some(conclusion)]
                /\ Return(VerifyReasoningChainOn(predicates, solver, premises,
                                                 conclusion, undecided))

Next == VerifyStatementsCall \/ VerifyReasoningChainCall

Spec == Init /\ [][Next]_vars

(***************************************************************************)
(* A verifier constructed for one call, as the tests of lib.rs and the     *)
(* commands of main.rs use it.  The call draws from more inputs: longer    *)
(* lists, a lone Q(), a predicate whose name is empty, a statement that    *)
(* holds P("a","b") and not P("a,b").                                      *)
(***************************************************************************)
Nameless == Predicate("", <<"a">>, FALSE)

PredicateListsOnce ==
    { <<>>, <<P_a_b>>, <<NotP_a_b>>, <<NotP_ab>>, <<Q>>,
      <<P_a_b, NotP_a_b>>, <<P_a_b, NotP_ab>>, <<Nameless>> }

StatementListsOnce(prefix, maxLen) ==
    UNION { { [k \in 1..n |-> Statement(prefix \o ToString(k - 1), "", body[k])] :
                  body \in [1..n -> PredicateListsOnce] } : n \in 0..maxLen }

StatementInputsOnce == StatementListsOnce("stmt_", MaxStmtsOnce)

PremiseInputsOnce == StatementListsOnce("premise_", MaxStmtsOnce - 1)

\* A conclusion may also be the lone P("a,b").
ConclusionInputsOnce ==
    { Statement("conclusion", "", l) :
          l \in PredicateListsOnce
                  \cup {<<Predicate("P", <<"a,b">>, FALSE)>>} }

FirstVerifyStatements ==
    /\ call.op = "new"
    /\ \E statements \in StatementInputsOnce :
           \E undecided \in {{0}} \cup SUBSET PairQueries(statements) :
               /\ call' = [op |-> "verify_statements",
                           statements |-> statements, conclusion |-> None]
               /\ Return(VerifyStatements(predicates, solver, statements,
                                          undecided))

FirstVerifyReasoningChain ==
    /\ call.op = "new"
    /\ \E premises \in PremiseInputsOnce :
           \E conclusion \in ConclusionInputsOnce :
               \E undecided \in ChainOracles :
                   /\ call' = [op |-> "verify_reasoning_chain",
                               statements |-> premises,
                               conclusion |-> Some(conclusion)]
                   /\ Return(VerifyReasoningChain(predicates, solver, premises,
                                                  conclusion, undecided))

NextOnce == FirstVerifyStatements \/ FirstVerifyReasoningChain

SpecOnce == Init /\ [][NextOnce]_vars

(***************************************************************************)
(* Strings (str::to_lowercase, str::contains), on ASCII text.              *)
(***************************************************************************)
UpperToLower ==
    [c \in {"A", "B", "C", "D", "E", "F", "G", "H", "I", "J", "K", "L", "M",
            "N", "O", "P", "Q", "R", "S", "T", "U", "V", "W", "X", "Y", "Z"} |->
        CASE c = "A" -> "a" [] c = "B" -> "b" [] c = "C" -> "c" [] c = "D" -> "d"
          [] c = "E" -> "e" [] c = "F" -> "f" [] c = "G" -> "g" [] c = "H" -> "h"
          [] c = "I" -> "i" [] c = "J" -> "j" [] c = "K" -> "k" [] c = "L" -> "l"
          [] c = "M" -> "m" [] c = "N" -> "n" [] c = "O" -> "o" [] c = "P" -> "p"
          [] c = "Q" -> "q" [] c = "R" -> "r" [] c = "S" -> "s" [] c = "T" -> "t"
          [] c = "U" -> "u" [] c = "V" -> "v" [] c = "W" -> "w" [] c = "X" -> "x"
          [] c = "Y" -> "y" [] c = "Z" -> "z"]

RECURSIVE ToLowercase(_)
ToLowercase(text) ==
    IF text = "" THEN ""
    ELSE (IF Head(text) \in DOMAIN UpperToLower
          THEN UpperToLower[Head(text)] ELSE Head(text))
             \o ToLowercase(Tail(text))

\* text.contains(pattern)
Contains(text, pattern) ==
    \E k \in 1..(Len(text) + 1 - Len(pattern)) :
        SubSeq(text, k, k + Len(pattern) - 1) = pattern

(***************************************************************************)
(* parse_statement (lib.rs 246-340).                                       *)
(***************************************************************************)
\* predicates.push(..) when the condition holds
PushIf(condition, preds) == IF condition THEN preds ELSE <<>>

ParsePredicates(text) ==
    LET text_lower == ToLowercase(text)
    IN  PushIf(/\ Contains(text_lower, "all")
               /\ Contains(text_lower, "perfectly logical"),
               <<Predicate("ai_system_perfectly_logical", <<"ai_systems">>, FALSE),
                 Predicate("ai_systems_contain_contradictions", <<"ai_systems">>,
                           TRUE)>>)
        \o PushIf(\/ Contains(text_lower, "ai systems contain contradictions")
                  \/ Contains(text_lower,
                              "current ai systems contain contradictions"),
               <<Predicate("ai_systems_contain_contradictions", <<"ai_systems">>,
                           FALSE)>>)
        \o PushIf(/\ Contains(text_lower, "no")
                  /\ Contains(text_lower, "ai systems exist"),
               <<Predicate("ai_systems_exist", <<"ai_systems">>, TRUE)>>)
        \o PushIf(/\ Contains(text_lower, "we need")
                  /\ Contains(text_lower, "coherent tools"),
               <<Predicate("need_coherent_tools", <<"we">>, FALSE)>>)
        \o PushIf(/\ Contains(text_lower, "we need")
                  /\ Contains(text_lower, "validation"),
               <<Predicate("need_validation", <<"we">>, FALSE)>>)
        \o PushIf(Contains(text_lower, "coherent tools require validation"),
               <<Predicate("coherent_tools_require_validation", <<"tools">>,
                           FALSE),
                 Predicate("need_validation_implied", <<"we">>, FALSE)>>)
        \o PushIf(/\ Contains(text_lower, "some")
                  /\ Contains(text_lower, "logical"),
               <<Predicate("some_systems_logical", <<"systems">>, FALSE)>>)
        \o PushIf(/\ Contains(text_lower, "some")
                  /\ Contains(text_lower, "errors"),
               <<Predicate("some_systems_have_errors", <<"systems">>, FALSE)>>)

ParseStatement(text, id) == Statement(id, text, ParsePredicates(text))

(***************************************************************************)
(* The commands of the verifier's command line (main.rs of                 *)
(* formal_verifier): each run constructs a verifier and executes one       *)
(* command.  Commands::Interactive repeats these commands on one verifier, *)
(* which is what Spec does with the calls they make.                       *)
(***************************************************************************)
\* The sentences of run_tests.
Test1Statements ==
    <<"All AI systems are perfectly logical",
      "Current AI systems contain contradictions">>

Test2Statements ==
    <<"Some AI systems are logical", "Some AI systems contain errors">>

Test3Premises ==
    <<"All AI systems are perfectly logical",
      "Current AI systems contain contradictions">>

Test3Conclusion == "Therefore, no AI systems exist"

Test4Premises ==
    <<"We need coherent tools", "Coherent tools require validation">>

Test4Conclusion == "We need validation"

\* The sentences of tests::test_valid_reasoning (lib.rs 365-367).
ValidReasoningPremises == <<"All humans are mortal", "Socrates is human">>

ValidReasoningConclusion == "Socrates is mortal"

\* The sentences a command line is given.
Texts ==
    Range(Test1Statements) \cup Range(Test2Statements)
        \cup Range(Test3Premises) \cup {Test3Conclusion}
        \cup Range(Test4Premises) \cup {Test4Conclusion}
        \cup Range(ValidReasoningPremises) \cup {ValidReasoningConclusion}

TextLists(maxLen) == UNION { [1..n -> Texts] : n \in 0..maxLen }

\* .enumerate().map(|(i, text)| parse_statement(text, &format!("{prefix}{}", i)))
\* What parse_statement finds in each sentence, worked out once per sentence.
ParsedTexts == [text \in Texts |-> ParsePredicates(text)] @@ <<>>

ParseAll(texts, prefix) ==
    [k \in DOMAIN texts |->
        Statement(prefix \o ToString(k - 1), texts[k], ParsedTexts[texts[k]])]

\* fn verify_statements(verifier, statements) of main.rs
CliVerify ==
    /\ call.op = "new"
    /\ \E statements \in TextLists(MaxStmtsOnce) :
           IF statements = <<>>
           THEN /\ call' = [op |-> "No statements provided",
                            statements |-> <<>>, conclusion |-> None]
                /\ UNCHANGED <<predicates, solver, verdicts, pairChecks,
                               result, localized>>
           ELSE LET parsed_statements == ParseAll(statements, "stmt_")
                IN  \E undecided \in
                            {{0}} \cup SUBSET PairQueries(parsed_statements) :
                        /\ call' = [op |-> "verify_statements",
                                    statements |-> parsed_statements,
                                    conclusion |-> None]
                        /\ Return(VerifyStatements(predicates, solver,
                                                   parsed_statements, undecided))

\* fn verify_reasoning(verifier, premises, conclusion) of main.rs
CliReasoning ==
    /\ call.op = "new"
    /\ \E premises \in TextLists(MaxStmtsOnce - 1) :
           \E conclusion \in Texts :
               \E undecided \in ChainOracles :
                   LET premise_statements == ParseAll(premises, "premise_")
                       conclusion_statement ==
                           ParseStatement(conclusion, "conclusion")
                   IN  /\ call' = [op |-> "verify_reasoning_chain",
                                   statements |-> premise_statements,
                                   conclusion |-> Some(conclusion_statement)]
                       /\ Return(VerifyReasoningChain(predicates, solver,
                                     premise_statements, conclusion_statement,
                                     undecided))

\* fn run_tests(verifier) of main.rs: Tests 1 to 4 in this order on one
\* verifier, each printing its result before the next one starts; call.op
\* is the test the run has reached.
CliTest1 ==
    /\ call.op = "new"
    /\ LET statements == ParseAll(Test1Statements, "stmt_")
       IN  \E undecided \in {{0}} \cup SUBSET PairQueries(statements) :
               /\ call' = [op |-> "Test 1", statements |-> statements,
                           conclusion |-> None]
               /\ Return(VerifyStatements(predicates, solver, statements,
                                          undecided))

CliTest2 ==
    /\ call.op = "Test 1"
    /\ LET statements == ParseAll(Test2Statements, "stmt_")
       IN  \E undecided \in {{0}} \cup SUBSET PairQueries(statements) :
               /\ call' = [op |-> "Test 2", statements |-> statements,
                           conclusion |-> None]
               /\ Return(VerifyStatements(predicates, solver, statements,
                                          undecided))

CliTest3 ==
    /\ call.op = "Test 2"
    /\ LET premises == ParseAll(Test3Premises, "premise_")
           conclusion == ParseStatement(Test3Conclusion, "conclusion")
       IN  \E undecided \in ChainOracles :
               /\ call' = [op |-> "Test 3", statements |-> premises,
                           conclusion |-> Some(conclusion)]
               /\ Return(VerifyReasoningChain(predicates, solver, premises,
                                              conclusion, undecided))

CliTest4 ==
    /\ call.op = "Test 3"
    /\ LET premises == ParseAll(Test4Premises, "premise_")
           conclusion == ParseStatement(Test4Conclusion, "conclusion")
       IN  \E undecided \in ChainOracles :
               /\ call' = [op |-> "Test 4", statements |-> premises,
                           conclusion |-> Some(conclusion)]
               /\ Return(VerifyReasoningChain(predicates, solver, premises,
                                              conclusion, undecided))

CliTest == CliTest1 \/ CliTest2 \/ CliTest3 \/ CliTest4

NextCli == CliVerify \/ CliReasoning \/ CliTest

SpecCli == Init /\ [][NextCli]_vars

(***************************************************************************)
(* More of str, as the code checker uses it (code_checker/src/lib.rs):     *)
(* lines, trim, starts_with, trim_start_matches, trim_end_matches,         *)
(* split_whitespace, split('('), join(" ").                                *)
(***************************************************************************)
IsWhitespace(c) == c \in {" ", "\t", "\n", "\r", "\f"}

RECURSIVE TrimStart(_)
TrimStart(text) ==
    IF text # "" /\ IsWhitespace(Head(text)) THEN TrimStart(Tail(text))
    ELSE text

RECURSIVE TrimEnd(_)
TrimEnd(text) ==
    IF text # "" /\ IsWhitespace(SubSeq(text, Len(text), Len(text)))
    THEN TrimEnd(SubSeq(text, 1, Len(text) - 1))
    ELSE text

Trim(text) == TrimEnd(TrimStart(text))

StartsWith(text, prefix) ==
    /\ Len(text) >= Len(prefix)
    /\ SubSeq(text, 1, Len(prefix)) = prefix

EndsWith(text, suffix) ==
    /\ Len(text) >= Len(suffix)
    /\ SubSeq(text, Len(text) + 1 - Len(suffix), Len(text)) = suffix

RECURSIVE TrimStartMatches(_, _)
TrimStartMatches(text, pattern) ==
    IF StartsWith(text, pattern)
    THEN TrimStartMatches(SubSeq(text, Len(pattern) + 1, Len(text)), pattern)
    ELSE text

RECURSIVE TrimEndMatches(_, _)
TrimEndMatches(text, pattern) ==
    IF EndsWith(text, pattern)
    THEN TrimEndMatches(SubSeq(text, 1, Len(text) - Len(pattern)), pattern)
    ELSE text

\* The place of the first occurrence of pattern in text, 0 when there is none.
Find(text, pattern) ==
    LET places == { k \in 1..(Len(text) + 1 - Len(pattern)) :
                        SubSeq(text, k, k + Len(pattern) - 1) = pattern }
    IN  IF places = {} THEN 0
        ELSE CHOOSE k \in places : \A other \in places : k <= other

\* str::lines: split at "\n", a "\r" before it dropped, no empty last line.
RECURSIVE Lines(_)
Lines(code) ==
    IF code = "" THEN <<>>
    ELSE LET k == Find(code, "\n")
             line == IF k = 0 THEN code ELSE SubSeq(code, 1, k - 1)
             rest == IF k = 0 THEN "" ELSE SubSeq(code, k + 1, Len(code))
         IN  <<(IF k # 0 /\ EndsWith(line, "\r")
                THEN SubSeq(line, 1, Len(line) - 1) ELSE line)>> \o Lines(rest)

\* The length of the longest prefix of text without whitespace.
RECURSIVE WordLen(_)
WordLen(text) ==
    IF text = "" \/ IsWhitespace(Head(text)) THEN 0
    ELSE 1 + WordLen(Tail(text))

RECURSIVE SplitWhitespace(_)
SplitWhitespace(text) ==
    LET rest == TrimStart(text)
    IN  IF rest = "" THEN <<>>
        ELSE <<SubSeq(rest, 1, WordLen(rest))>>
                 \o SplitWhitespace(SubSeq(rest, WordLen(rest) + 1, Len(rest)))

\* text.split('(').next()
BeforeParen(text) ==
    IF Find(text, "(") = 0 THEN text ELSE SubSeq(text, 1, Find(text, "(") - 1)

RECURSIVE JoinSpace(_)
JoinSpace(strs) ==
    IF Len(strs) = 0 THEN ""
    ELSE IF Len(strs) = 1 THEN strs[1]
    ELSE strs[1] \o " " \o JoinSpace(Tail(strs))

(***************************************************************************)
(* ContractExtractor (code_checker/src/lib.rs 178-251).                    *)
(***************************************************************************)
\* struct FunctionContract
FunctionContract(name, preconditions, postconditions, docstring) ==
    [name |-> name, preconditions |-> preconditions,
     postconditions |-> postconditions, input_types |-> <<>>,
     output_type |-> None, docstring |-> docstring]

\* code.lines().find(|line| line.trim().starts_with("def ")) and the name
\* taken from it; None when there is no such line.
RECURSIVE DefName(_)
DefName(lines) ==
    IF lines = <<>> THEN None
    ELSE IF StartsWith(Trim(Head(lines)), "def ")
    THEN (IF Len(SplitWhitespace(Head(lines))) >= 2
          THEN Some(BeforeParen(SplitWhitespace(Head(lines))[2])) ELSE None)
    ELSE DefName(Tail(lines))

TripleDouble == "\"\"\""

TripleSingle == "'''"

\* The loop over code.lines() that collects docstring_lines.
RECURSIVE DocstringLines(_, _, _)
DocstringLines(lines, in_docstring, docstring_lines) ==
    IF lines = <<>> THEN docstring_lines
    ELSE LET trimmed == Trim(Head(lines))
         IN  IF StartsWith(trimmed, TripleDouble)
                    \/ StartsWith(trimmed, TripleSingle)
             THEN IF in_docstring THEN docstring_lines
                  ELSE IF Len(trimmed) > 3
                  THEN Append(docstring_lines,
                           TrimEndMatches(
                               TrimEndMatches(
                                   TrimStartMatches(
                                       TrimStartMatches(trimmed, TripleDouble),
                                       TripleSingle),
                                   TripleDouble),
                               TripleSingle))
                  ELSE DocstringLines(Tail(lines), TRUE, docstring_lines)
             ELSE IF in_docstring
             THEN DocstringLines(Tail(lines), TRUE,
                                 Append(docstring_lines, trimmed))
             ELSE DocstringLines(Tail(lines), FALSE, docstring_lines)

\* fn parse_docstring_contracts: the postconditions and the preconditions
\* pushed for a docstring.
DocstringPostconditions(docstring) ==
    PushIf(Contains(ToLowercase(docstring), "sorted"), <<"result_is_sorted">>)
        \o PushIf(Contains(ToLowercase(docstring), "ascending"),
                  <<"result_ascending_order">>)

DocstringPreconditions(docstring) ==
    PushIf(\/ Contains(ToLowercase(docstring), "non-negative")
           \/ Contains(ToLowercase(docstring), "positive"),
           <<"input_non_negative">>)

ExtractContractFromText(code) ==
    LET name == IF DefName(Lines(code)) = None THEN "unknown_function"
                ELSE DefName(Lines(code))[1]
        docstring_lines == DocstringLines(Lines(code), FALSE, <<>>)
        docstring == JoinSpace(docstring_lines)
    IN  IF docstring_lines # <<>>
        THEN FunctionContract(name, DocstringPreconditions(docstring),
                              DocstringPostconditions(docstring),
                              Some(docstring))
        ELSE FunctionContract(name, <<>>, <<>>, None)

(***************************************************************************)
(* CodeCoherenceChecker::analyze_implementation_from_text (lib.rs 111-150) *)
(***************************************************************************)
\* struct ImplementationLogic
ImplementationLogic(function_name, logical_assertions, return_conditions) ==
    [function_name |-> function_name,
     logical_assertions |-> logical_assertions,
     state_changes |-> <<>>,
     return_conditions |-> return_conditions]

\* A faulty classification: the reversal is looked for first.
ReturnConditionReversalFirst(line) ==
    IF Contains(line, "[::-1]") THEN "returns_reversed_result"
    ELSE IF Contains(line, "sorted(") THEN "returns_sorted_result"
    ELSE "returns_value"

\* What a line starting with "return " pushes.
ReturnCondition(line) ==
    IF Contains(line, "sorted(") THEN "returns_sorted_result"
    ELSE IF Contains(line, "[::-1]") THEN "returns_reversed_result"
    ELSE "returns_value"

RECURSIVE ReturnConditions(_)
ReturnConditions(lines) ==
    IF lines = <<>> THEN <<>>
    ELSE PushIf(StartsWith(Trim(Head(lines)), "return "),
                <<ReturnCondition(Trim(Head(lines)))>>)
             \o ReturnConditions(Tail(lines))

RECURSIVE LogicalAssertions(_)
LogicalAssertions(lines) ==
    IF lines = <<>> THEN <<>>
    ELSE PushIf(StartsWith(Trim(Head(lines)), "assert "), <<"has_assertion">>)
             \o LogicalAssertions(Tail(lines))

AnalyzeImplementationFromText(code) ==
    ImplementationLogic(
        IF DefName(Lines(code)) = None THEN "unknown_function"
        ELSE DefName(Lines(code))[1],
        LogicalAssertions(Lines(code)),
        ReturnConditions(Lines(code)))

(***************************************************************************)
(* PredicateTranslator::translate_to_predicates (lib.rs 254-313).          *)
(***************************************************************************)
\* The conditions of the contract the first loop translates.
TranslatedConditions(contract) == contract.postconditions

TranslateToPredicates(contract, implementation) ==
    LET conditions == TranslatedConditions(contract)
        from_contract ==
            [k \in 1..Len(conditions) |->
                Statement("postcond_" \o ToString(k - 1),
                          "Contract postcondition: " \o conditions[k],
                          <<Predicate(conditions[k], <<"output">>, FALSE)>>)]
        from_returns ==
            [k \in 1..Len(implementation.return_conditions) |->
                Statement("impl_return_"
                              \o ToString(Len(conditions) + k - 1),
                          "Implementation return: "
                              \o implementation.return_conditions[k],
                          <<Predicate(implementation.return_conditions[k],
                                      <<"implementation">>, FALSE)>>)]
        statement_id ==
            Len(conditions) + Len(implementation.return_conditions)
    IN  from_contract \o from_returns
            \o PushIf(/\ "result_is_sorted" \in Range(contract.postconditions)
                      /\ "returns_reversed_result"
                             \in Range(implementation.return_conditions),
                      <<Statement("contradiction_" \o ToString(statement_id),
                            "Contract says sorted, implementation returns reversed",
                            <<Predicate("result_is_sorted", <<"output">>, FALSE),
                              Predicate("result_is_sorted", <<"output">>,
                                        TRUE)>>)>>)

(***************************************************************************)
(* CodeCoherenceChecker::convert_to_code_result (lib.rs 152-175).          *)
(***************************************************************************)
\* format!("{:?}", s) of a String without characters to escape
DebugString(s) == "\"" \o s \o "\""

\* format!("{:?}", c) of a Contradiction
DebugContradiction(c) ==
    "Contradiction { statement1: " \o DebugString(c.statement1)
        \o ", statement2: " \o DebugString(c.statement2)
        \o ", reason: " \o DebugString(c.reason)
        \o ", formal_proof: " \o DebugString(c.formal_proof) \o " }"

\* The items from the k-th on, separated by ", ".
RECURSIVE DebugItems(_, _)
DebugItems(contradictions, k) ==
    IF k > Len(contradictions) THEN ""
    ELSE (IF k > 1 THEN ", " ELSE "")
             \o DebugContradiction(contradictions[k])
             \o DebugItems(contradictions, k + 1)

\* format!("{:?}", contradictions) of a Vec<Contradiction>
DebugContradictions(contradictions) ==
    "[" \o DebugItems(contradictions, 1) \o "]"

\* struct CoherenceViolation
CoherenceViolation(location, formal_contradiction) ==
    [violation_type |-> "ContractImplementationMismatch",
     description |-> "Implementation does not satisfy contract",
     location |-> location,
     formal_contradiction |-> formal_contradiction]

\* struct CodeVerificationResult
CodeVerificationResult(is_coherent, confidence, violations, formal_proof) ==
    [is_coherent |-> is_coherent, confidence |-> confidence,
     violations |-> violations, formal_proof |-> formal_proof]

\* A faulty conversion: no violation is ever recorded.
ConvertToCodeResultSilent(verification_result, contract) ==
    CodeVerificationResult(
        verification_result.is_consistent,
        verification_result.confidence,
        <<>>,
        Some("Z3 verification: "
                 \o (IF verification_result.is_consistent
                     THEN "true" ELSE "false")))

ConvertToCodeResult(verification_result, contract) ==
    CodeVerificationResult(
        verification_result.is_consistent,
        verification_result.confidence,
        PushIf(~verification_result.is_consistent,
               <<CoherenceViolation(contract.name,
                     DebugContradictions(verification_result.contradictions))>>),
        Some("Z3 verification: "
                 \o (IF verification_result.is_consistent
                     THEN "true" ELSE "false")))

(***************************************************************************)
(* The function texts given to the code checker: the cases of              *)
(* run_test_suite (code_checker/src/main.rs 198-246), and one def line     *)
(* followed by every docstring and every body below.                       *)
(***************************************************************************)
TestCase(name, code, expected_coherent) ==
    [name |-> name, code |-> code, expected_coherent |-> expected_coherent]

TestCases ==
    <<TestCase("Simple coherent function",
          "\ndef add_numbers(a, b):\n"
              \o "    \"\"\"Returns the sum of two numbers.\"\"\"\n"
              \o "    return a + b\n",
          TRUE),
      TestCase("Function with sorting contract",
          "\ndef sort_list(items):\n"
              \o "    \"\"\"Returns a sorted list in ascending order.\"\"\"\n"
              \o "    return sorted(items)\n",
          TRUE),
      TestCase("Contradictory function",
          "\ndef sort_list(items):\n"
              \o "    \"\"\"Returns a sorted list in ascending order.\"\"\"\n"
              \o "    return items[::-1]  # Returns reversed, not sorted\n",
          FALSE),
      TestCase("Function with type constraints",
          "\ndef get_positive(x):\n"
              \o "    \"\"\"Returns a positive number.\"\"\"\n"
              \o "    assert x >= 0\n"
              \o "    return x\n",
          TRUE),
      TestCase("Impossible function",
          "\ndef sort_in_constant_time(items):\n"
              \o "    \"\"\"Sorts a list in O(1) time complexity.\"\"\"\n"
              \o "    # This is mathematically impossible for comparison-based sorting\n"
              \o "    return sorted(items)\n",
          FALSE)>>

Docstrings ==
    { "",
      "    \"\"\"Returns a sorted list.\"\"\"\n",
      "    \"\"\"Returns the items in ascending order.\"\"\"\n",
      "    \"\"\"Returns a Sorted list.\"\"\"\n",
      "    '''Input must be non-negative.'''\n",
      "    \"\"\"\n    Returns a sorted list.\n    \"\"\"\n",
      "    \"\"\"Returns the items\n    as a sorted list.\n    \"\"\"\n",
      "    \"\"\"\n    \"\"\"\n" }

Bodies ==
    { "    return sorted(items)\n",
      "    return items[::-1]\n",
      "    return sorted(items)[::-1]\n",
      "    return items\n",
      "    assert items\n    return items\n",
      "    if not items:\n        return items\n    return sorted(items)\n",
      "    if flag:\n        return items[::-1]\n    return sorted(items)\n",
      "    pass\n" }

PythonCodes ==
    { TestCases[k].code : k \in DOMAIN TestCases }
        \cup { "def f(items, flag):\n" \o docstring \o body :
                   docstring \in Docstrings, body \in Bodies }

(***************************************************************************)
(* verify_function (lib.rs 89-102).  What the extractor, the analysis and  *)
(* the translator give for a function text is worked out once per text.    *)
(***************************************************************************)
Contracts ==
    [python_code \in PythonCodes |-> ExtractContractFromText(python_code)]
        @@ <<>>

Implementations ==
    [python_code \in PythonCodes |->
        AnalyzeImplementationFromText(python_code)] @@ <<>>

Translations ==
    [python_code \in PythonCodes |->
        TranslateToPredicates(Contracts[python_code],
                              Implementations[python_code])] @@ <<>>

\* The state the verifier is left in and the result handed back, from the
\* run of verify_statements and the contract.
FunctionRun(run, contract) ==
    [predicates |-> run.predicates,
     solver |-> run.solver,
     verdicts |-> run.verdicts,
     pairChecks |-> run.pairChecks,
     result |-> ConvertToCodeResult(run.result, contract)]

VerifyFunction(registry0, solver0, python_code, undecided) ==
    FunctionRun(VerifyStatements(registry0, solver0,
                                 Translations[python_code], undecided),
                Contracts[python_code])

(***************************************************************************)
(* The commands of the code checker's command line (main.rs of             *)
(* code_checker): each run constructs a checker and executes one command.  *)
(***************************************************************************)
\* fn verify_function_command(checker, code)
VerifyFunctionCommand ==
    /\ call.op = "new"
    /\ \E python_code \in PythonCodes :
           \E undecided \in
                   {{0}} \cup SUBSET PairQueries(Translations[python_code]) :
               /\ call' = [op |-> "verify_function", code |-> python_code,
                           statements |-> Translations[python_code],
                           conclusion |-> None]
               /\ Return(VerifyFunction(predicates, solver, python_code,
                                        undecided))

\* One turn of the loop of run_test_suite: the k-th case has been verified
\* with the outcome run, and is counted as passed or failed.
CountTest(k, passed, failed, decided, run) ==
    /\ call' = [op |-> "run_test_suite", test |-> k,
                passed |-> IF run.result.is_coherent
                                  = TestCases[k].expected_coherent
                           THEN passed + 1 ELSE passed,
                failed |-> IF run.result.is_coherent
                                  = TestCases[k].expected_coherent
                           THEN failed ELSE failed + 1,
                decided |-> decided /\ run.verdicts[1] # "Unknown",
                code |-> TestCases[k].code,
                statements |-> Translations[TestCases[k].code],
                conclusion |-> None]
    /\ Return(run)

\* fn run_test_suite(checker): call.test is the case the loop has handled,
\* call.decided records that the solver decided the global query of every
\* case so far.
RunTestSuiteStep ==
    /\ call.op \in {"new", "run_test_suite"}
    /\ call.op = "run_test_suite" => call.test < Len(TestCases)
    /\ \E k \in DOMAIN TestCases :
           /\ k = IF call.op = "new" THEN 1 ELSE call.test + 1
           /\ \E undecided \in {{0}} \cup
                       SUBSET PairQueries(Translations[TestCases[k].code]) :
                  CountTest(k,
                            IF call.op = "new" THEN 0 ELSE call.passed,
                            IF call.op = "new" THEN 0 ELSE call.failed,
                            IF call.op = "new" THEN TRUE ELSE call.decided,
                            VerifyFunction(predicates, solver,
                                           TestCases[k].code, undecided))

NextChecker == VerifyFunctionCommand \/ RunTestSuiteStep

SpecChecker == Init /\ [][NextChecker]_vars

(***************************************************************************)
(* What the specification says, in the terms it uses: an atom is a pair    *)
(* (name, args), a literal is an atom or its negation, a statement is the  *)
(* AND of its literals, an input is the AND of its statements.             *)
(***************************************************************************)
Atom(predicate) == <<predicate.name, predicate.args>>

Literals(statements) ==
    UNION { Range(statements[k].predicates) : k \in DOMAIN statements }

Atoms(statements) == { Atom(p) : p \in Literals(statements) }

\* The literal holds when exactly the atoms of trueAtoms are true.
LiteralHolds(predicate, trueAtoms) ==
    (Atom(predicate) \in trueAtoms) # predicate.negated

StatementHolds(statement, trueAtoms) ==
    \A p \in Range(statement.predicates) : LiteralHolds(p, trueAtoms)

\* Some truth assignment to the atoms makes every literal true.
HasModel(statements) ==
    \E trueAtoms \in SUBSET Atoms(statements) :
        \A k \in DOMAIN statements : StatementHolds(statements[k], trueAtoms)

\* Some atom occurs both negated and un-negated.
Clash(statements) ==
    \E p, q \in Literals(statements) :
        Atom(p) = Atom(q) /\ p.negated # q.negated

\* Every assignment that satisfies the premises satisfies the conclusion.
Entailed(premises, conclusion) ==
    \A trueAtoms \in SUBSET Atoms(Append(premises, conclusion)) :
        (\A k \in DOMAIN premises : StatementHolds(premises[k], trueAtoms))
            => StatementHolds(conclusion, trueAtoms)

\* One statement asserts P and another one asserts not-P.
OppositeAcross(statements) ==
    \E i, j \in DOMAIN statements :
        /\ i # j
        /\ \E p \in Range(statements[i].predicates),
              q \in Range(statements[j].predicates) :
                Atom(p) = Atom(q) /\ p.negated # q.negated

\* The statement with the negated flag of each predicate flipped.
Flip(statement) ==
    Statement(statement.id, statement.text,
              [k \in DOMAIN statement.predicates |->
                  Predicate(statement.predicates[k].name,
                            statement.predicates[k].args,
                            ~statement.predicates[k].negated)])

\* The formula statement_to_z3 builds for a statement.
FormulaOf(statement) == StatementToZ3(EmptyRegistry, statement).expr

\* The queries of the last call the oracle gave up on.
UndecidedOf(answers) ==
    { k - 1 : k \in { n \in DOMAIN answers : answers[n] = "Unknown" } }

StatementsReturned == call.op = "verify_statements"

ChainReturned == call.op = "verify_reasoning_chain"

Returned == StatementsReturned \/ ChainReturned

\* The oracle decided the global query of the last call.
Definite == verdicts[1] # "Unknown"

(***************************************************************************)
(* C1: when the oracle is definite, verify_statements returns              *)
(* is_consistent = true iff some truth assignment to the atoms makes every *)
(* literal of every statement true; equivalently is_consistent = false iff *)
(* some atom occurs both negated and un-negated in the input.              *)
(***************************************************************************)
C1_ConsistentIffModel ==
    (StatementsReturned /\ Definite) =>
        /\ result[1].is_consistent <=> HasModel(call.statements)
        /\ ~result[1].is_consistent <=> Clash(call.statements)

(***************************************************************************)
(* C2: within one verify_statements call two predicates with the same      *)
(* (name, args) resolve to the same constant, whichever statements hold    *)
(* them, and an input in which one statement asserts P and another one     *)
(* asserts not-P is reported is_consistent = false, whatever else it holds.*)
(***************************************************************************)
C2_SharedAtomOppositeInconsistent ==
    StatementsReturned =>
        /\ \A p, q \in Literals(call.statements) :
               Atom(p) = Atom(q) =>
                   /\ Format(p) \in DOMAIN predicates
                   /\ Format(q) \in DOMAIN predicates
                   /\ predicates[Format(p)] = predicates[Format(q)]
        /\ OppositeAcross(call.statements) => ~result[1].is_consistent

\* P and not-P in two statements, decided and reported inconsistent.
C2_Witness ==
    /\ StatementsReturned
    /\ OppositeAcross(call.statements)
    /\ verdicts[1] = "Unsat"
    /\ ~result[1].is_consistent

(***************************************************************************)
(* C3, as stated: whenever verify_statements returns is_consistent = false *)
(* the contradictions of that call hold at least one pair.                 *)
(***************************************************************************)
C3_InconsistentHasPair ==
    (StatementsReturned /\ ~result[1].is_consistent) =>
        result[1].contradictions # <<>>

(***************************************************************************)
(* C3, amended: when the global verdict is Unsat, the input holds at least *)
(* two statements and the oracle decides every pair query, the             *)
(* contradictions of that call hold at least one pair.                     *)
(***************************************************************************)
C3_UnsatDecidedHasPair ==
    (/\ StatementsReturned
     /\ verdicts[1] = "Unsat"
     /\ Len(call.statements) >= 2
     /\ UndecidedOf(verdicts) = {}) =>
        result[1].contradictions # <<>>

\* An Unsat verdict on two statements, every pair query decided.
C3_Witness ==
    /\ StatementsReturned
    /\ verdicts[1] = "Unsat"
    /\ Len(call.statements) >= 2
    /\ UndecidedOf(verdicts) = {}
    /\ Len(result[1].contradictions) >= 1

(***************************************************************************)
(* C4: every Contradiction verify_statements returns names two statements  *)
(* of the input, the earlier as statement1 and the later as statement2,    *)
(* whose two formulas alone are unsatisfiable; it comes from a pair check  *)
(* on a solver holding those two formulas only, never from the global      *)
(* check.                                                                  *)
(***************************************************************************)
C4_ContradictionsArePairwiseUnsat ==
    StatementsReturned =>
        \A n \in DOMAIN result[1].contradictions :
            \E k \in DOMAIN pairChecks :
                LET i == pairChecks[k].i
                    j == pairChecks[k].j
                    pair == <<FormulaOf(call.statements[i]),
                              FormulaOf(call.statements[j])>>
                IN  /\ i \in DOMAIN call.statements
                    /\ j \in DOMAIN call.statements
                    /\ i < j
                    /\ result[1].contradictions[n].statement1
                           = call.statements[i].id
                    /\ result[1].contradictions[n].statement2
                           = call.statements[j].id
                    /\ pairChecks[k].verdict = "Unsat"
                    /\ pairChecks[k].temp_solver = pair
                    /\ ~Satisfiable(pair)

\* A call that returned a Contradiction found by its first pair check.
C4_Witness ==
    /\ StatementsReturned
    /\ Len(result[1].contradictions) = 1
    /\ pairChecks[1].verdict = "Unsat"

(***************************************************************************)
(* C5: when the oracle is definite, verify_reasoning_chain returns         *)
(* is_consistent = true iff every truth assignment to the atoms that       *)
(* satisfies all premises satisfies every literal of the conclusion (the   *)
(* conclusion being negated as a whole).                                   *)
(***************************************************************************)
C5_ValidIffEntailed ==
    (ChainReturned /\ Definite) =>
        (result[1].is_consistent
            <=> Entailed(call.statements, call.conclusion[1]))

(***************************************************************************)
(* C6, as stated: for any premises P and conclusion C,                     *)
(* verify_reasoning_chain(P, C).is_consistent is true iff                  *)
(* verify_statements(P plus C with every negated flag flipped)             *)
(* .is_consistent is false.                                                *)
(***************************************************************************)
C6_Duality ==
    ChainReturned =>
        (result[1].is_consistent
            <=> ~VerifyStatements(predicates, solver,
                                  Append(call.statements,
                                         Flip(call.conclusion[1])),
                                  {}).result.is_consistent)

(***************************************************************************)
(* C6, amended: when the conclusion C holds exactly one predicate and the  *)
(* oracle decides both queries, verify_reasoning_chain(P, C).is_consistent *)
(* is true iff verify_statements(P plus C with its negated flag flipped)   *)
(* .is_consistent is false.                                                *)
(***************************************************************************)
C6_DualityOneLiteral ==
    (/\ ChainReturned
     /\ Definite
     /\ Len(call.conclusion[1].predicates) = 1) =>
        (result[1].is_consistent
            <=> ~VerifyStatements(predicates, solver,
                                  Append(call.statements,
                                         Flip(call.conclusion[1])),
                                  {}).result.is_consistent)

\* A one-literal conclusion found entailed by a premise.
C6_Witness ==
    /\ ChainReturned
    /\ Len(call.statements) >= 1
    /\ Len(call.conclusion[1].predicates) = 1
    /\ verdicts[1] = "Unsat"
    /\ result[1].is_consistent

(***************************************************************************)
(* C7: in every result of verify_statements, contradictions is non-empty   *)
(* only when is_consistent is false; when is_consistent is true it is      *)
(* empty.                                                                  *)
(***************************************************************************)
C7_ContradictionsOnlyWhenInconsistent ==
    StatementsReturned =>
        /\ result[1].contradictions # <<>> => ~result[1].is_consistent
        /\ result[1].is_consistent => result[1].contradictions = <<>>

\* Two statements reported consistent, and none reported contradictory.
C7_Witness ==
    /\ StatementsReturned
    /\ Len(call.statements) = 2
    /\ result[1].is_consistent
    /\ result[1].contradictions = <<>>

(***************************************************************************)
(* C8: in every result of verify_statements and verify_reasoning_chain,    *)
(* confidence is 1.0 exactly when the oracle's verdict on the call's       *)
(* global query was Sat or Unsat and 0.0 exactly when it was Unknown; no   *)
(* other value is produced.                                                *)
(***************************************************************************)
C8_ConfidenceBinary ==
    Returned =>
        /\ result[1].confidence \in {0, 1}
        /\ result[1].confidence = 1 <=> verdicts[1] \in {"Sat", "Unsat"}
        /\ result[1].confidence = 0 <=> verdicts[1] = "Unknown"

\* A reasoning chain the oracle gave up on, returned with confidence 0.0.
C8_Witness ==
    /\ ChainReturned
    /\ verdicts[1] = "Unknown"
    /\ result[1].confidence = 0

(***************************************************************************)
(* C9: when the oracle answers Unknown to the global query,                *)
(* verify_statements returns is_consistent = false, confidence 0.0,        *)
(* contradictions [] and proof None, having run no pair check and asked    *)
(* the query once; verify_reasoning_chain on Unknown returns               *)
(* is_consistent = false, confidence 0.0 and proof None.                   *)
(***************************************************************************)
C9_UnknownIsTerminal ==
    (Returned /\ verdicts[1] = "Unknown") =>
        /\ ~result[1].is_consistent
        /\ result[1].confidence = 0
        /\ result[1].proof = None
        /\ result[1].contradictions = <<>>
        /\ pairChecks = <<>>
        /\ Len(verdicts) = 1

\* Two statements the oracle gave up on.
C9_Witness ==
    /\ StatementsReturned
    /\ Len(call.statements) = 2
    /\ verdicts = <<"Unknown">>
    /\ result[1].proof = None

(***************************************************************************)
(* C10: after any sequence of earlier calls on one verifier, a call        *)
(* returns the same is_consistent and the same contradictions as the same  *)
(* call, given the same oracle answers, on a freshly constructed verifier. *)
(***************************************************************************)
FreshRun ==
    IF StatementsReturned
    THEN VerifyStatements(EmptyRegistry, NewSolver, call.statements,
                          UndecidedOf(verdicts))
    ELSE VerifyReasoningChain(EmptyRegistry, NewSolver, call.statements,
                              call.conclusion[1], UndecidedOf(verdicts))

C10_HistoryIndependent ==
    Returned =>
        /\ result[1].is_consistent = FreshRun.result.is_consistent
        /\ result[1].contradictions = FreshRun.result.contradictions

\* A call reported consistent on a verifier whose earlier call ran
\* find_contradictions.
C10_Witness ==
    /\ localized
    /\ StatementsReturned
    /\ Len(call.statements) = 2
    /\ result[1].is_consistent

(***************************************************************************)
(* C11, as stated: if verify_statements returns is_consistent = true for a *)
(* list of statements, it returns is_consistent = true for that list with  *)
(* any one statement removed, whatever the oracle does on the shorter      *)
(* list.                                                                   *)
(***************************************************************************)
\* The list without its k-th statement.
Without(statements, k) ==
    [n \in 1..(Len(statements) - 1) |->
        IF n < k THEN statements[n] ELSE statements[n + 1]]

\* is_consistent of the next verify_statements call on this verifier.
ConsistentNext(statements, undecided) ==
    VerifyStatements(predicates, solver, statements,
                     undecided).result.is_consistent

C11_Monotone ==
    (StatementsReturned /\ result[1].is_consistent) =>
        \A k \in DOMAIN call.statements :
            \A undecided \in {{}, {0}} :
                ConsistentNext(Without(call.statements, k), undecided)

(***************************************************************************)
(* C11, amended: if verify_statements returns is_consistent = true for a   *)
(* list of statements, it returns is_consistent = true for that list with  *)
(* any one statement removed, provided the oracle decides the query on the *)
(* shorter list.                                                           *)
(***************************************************************************)
C11_MonotoneDecided ==
    (StatementsReturned /\ result[1].is_consistent) =>
        \A k \in DOMAIN call.statements :
            ConsistentNext(Without(call.statements, k), {})

\* Two statements with predicates, reported consistent.
C11_Witness ==
    /\ StatementsReturned
    /\ result[1].is_consistent
    /\ Len(call.statements) = 2
    /\ \A k \in DOMAIN call.statements : call.statements[k].predicates # <<>>

(***************************************************************************)
(* C13: every result of verify_reasoning_chain has an empty contradictions *)
(* list, whatever the verdict and even when the premises are mutually      *)
(* exclusive.                                                              *)
(***************************************************************************)
C13_ChainNoContradictions ==
    ChainReturned => result[1].contradictions = <<>>

\* Two premises that exclude each other, and no contradiction returned.
C13_Witness ==
    /\ ChainReturned
    /\ Len(call.statements) = 2
    /\ OppositeAcross(call.statements)
    /\ verdicts[1] = "Unsat"
    /\ result[1].contradictions = <<>>

(***************************************************************************)
(* C14, as stated: in every state between two calls the registry holds no  *)
(* atom and the verifier's solver holds no assertion of the call that just *)
(* returned.                                                               *)
(***************************************************************************)
C14_ReleasedOnReturn ==
    Returned => (predicates = EmptyRegistry /\ solver = NewSolver)

(***************************************************************************)
(* C14, amended: an entry point empties the registry and the solver when   *)
(* it starts, not when it returns: between two calls the registry holds    *)
(* exactly the formatted names of the predicates of the call that just     *)
(* returned and the solver exactly that call's assertions, and nothing of  *)
(* an earlier call.                                                        *)
(***************************************************************************)
\* The statements the last call built a formula for.
Built ==
    IF StatementsReturned THEN call.statements
    ELSE Append(call.statements, call.conclusion[1])

\* The assertions the last call made.
Asserted ==
    IF StatementsReturned
    THEN [k \in DOMAIN call.statements |-> FormulaOf(call.statements[k])]
    ELSE Append([k \in DOMAIN call.statements |->
                    FormulaOf(call.statements[k])],
                BoolNot(FormulaOf(call.conclusion[1])))

C14_HeldUntilNextCall ==
    Returned =>
        /\ DOMAIN predicates = { Format(p) : p \in Literals(Built) }
        /\ solver = Asserted

\* A verifier called more than once, holding the atoms and the assertions
\* of its last call.
C14_Witness ==
    /\ localized
    /\ Returned
    /\ predicates # EmptyRegistry
    /\ solver # NewSolver

(***************************************************************************)
(* C20: when the global verdict is Unsat, the contradictions of            *)
(* verify_statements are exactly the pairs (statements[i].id,              *)
(* statements[j].id), i < j, in lexicographic order of (i, j), whose own   *)
(* query returned Unsat: each once, the earlier statement as statement1;   *)
(* a pair whose query returned Sat or Unknown yields no record.  For       *)
(* [{P}, {not P}], the pair query decided, that is one contradiction       *)
(* between the two ids.                                                    *)
(***************************************************************************)
\* (i, j) comes before (k, l) in lexicographic order.
LexLess(i, j, k, l) == i < k \/ (i = k /\ j < l)

\* The pair checks whose query returned Unsat, in the order they were made.
UnsatChecks ==
    LET IsUnsat(check) == check.verdict = "Unsat"
    IN  SelectSeq(pairChecks, IsUnsat)

NamelessGiven == { p \in Literals(Built) : p.name = "" }

\* anyhow::Result: what is returned is an Err, not an Ok(VerificationResult).
IsErr(returned) == "is_consistent" \notin DOMAIN returned

C12_MalformedFails ==
    (Returned /\ NamelessGiven # {}) =>
        /\ IsErr(result[1])
        /\ \A p \in NamelessGiven : Format(p) \notin DOMAIN predicates

(***************************************************************************)
(* C17: verify_reasoning_chain returns is_consistent = false whenever the  *)
(* conclusion has a literal over an atom that occurs in no premise; in     *)
(* particular Test 3 of run_tests ("All AI systems are perfectly logical", *)
(* "Current AI systems contain contradictions", therefore "Therefore, no   *)
(* AI systems exist") is reported invalid.                                 *)
(***************************************************************************)
\* The last step was a reasoning check: the reasoning command or Test 3/4.
ReasoningReturned ==
    call.op \in {"verify_reasoning_chain", "Test 3", "Test 4"}

\* The conclusion of the last call has a literal over an atom of no premise.
FreshAtomInConclusion ==
    \E p \in Range(call.conclusion[1].predicates) :
        Atom(p) \notin Atoms(call.statements)

C17_FreshAtomRejected ==
    (ReasoningReturned /\ FreshAtomInConclusion)
        => ~result[1].is_consistent

(***************************************************************************)
(* C18: Test 4 of run_tests (premises "We need coherent tools" and         *)
(* "Coherent tools require validation", conclusion "We need validation")   *)
(* is accepted: verify_reasoning_chain returns is_consistent = true.       *)
(***************************************************************************)
Test4Given ==
    /\ ReasoningReturned
    /\ call.statements = ParseAll(Test4Premises, "premise_")
    /\ call.conclusion = Some(ParseStatement(Test4Conclusion, "conclusion"))

C18_Test4Accepted ==
    (Test4Given /\ Definite) => result[1].is_consistent

(***************************************************************************)
(* The terms of the claims about the code checker: the docstring of a      *)
(* function text is what stands between its first triple quote and the     *)
(* next triple quote of the same kind; a return line is a line that        *)
(* starts, after its indentation, with "return ".                          *)
(***************************************************************************)
\* The triple quote that opens the docstring, "" when there is none.
OpeningQuote(code) ==
    LET double == Find(code, TripleDouble)
        single == Find(code, TripleSingle)
    IN  IF double = 0 /\ single = 0 THEN ""
        ELSE IF single = 0 \/ (double # 0 /\ double < single) THEN TripleDouble
        ELSE TripleSingle

DocstringOf(code) ==
    IF OpeningQuote(code) = "" THEN ""
    ELSE LET after == SubSeq(code, Find(code, OpeningQuote(code)) + 3,
                             Len(code))
         IN  IF Find(after, OpeningQuote(code)) = 0 THEN after
             ELSE SubSeq(after, 1, Find(after, OpeningQuote(code)) - 1)

ReturnLines(code) ==
    { line \in Range(Lines(code)) : StartsWith(Trim(line), "return ") }

\* The last step was a call of verify_function.
FunctionReturned == call.op \in {"verify_function", "run_test_suite"}

(***************************************************************************)
(* C15: verify_function reports is_coherent = false with a non-empty       *)
(* violations list for every function text whose docstring contains        *)
(* "sorted" and that has a return line containing "[::-1]"; and it reports *)
(* is_coherent = true when the docstring contains "sorted" and every       *)
(* return line contains "sorted(" and no "[::-1]" (the solver deciding the *)
(* query).                                                                 *)
(***************************************************************************)
C15_SortedContractChecked ==
    (FunctionReturned /\ Contains(DocstringOf(call.code), "sorted")) =>
        /\ (\E line \in ReturnLines(call.code) : Contains(line, "[::-1]"))
               => /\ ~result[1].is_coherent
                  /\ result[1].violations # <<>>
        /\ (/\ Definite
            /\ \A line \in ReturnLines(call.code) :
                   Contains(line, "sorted(") /\ ~Contains(line, "[::-1]"))
               => result[1].is_coherent

(***************************************************************************)
(* C16: in run_test_suite, verify_function returns is_coherent equal to    *)
(* expected_coherent for each of the five cases (the solver deciding the   *)
(* query), so that the suite ends with failed = 0.                         *)
(***************************************************************************)
C16_SuitePasses ==
    call.op = "run_test_suite" =>
        /\ Definite =>
               result[1].is_coherent = TestCases[call.test].expected_coherent
        /\ (call.test = Len(TestCases) /\ call.decided) => call.failed = 0

(***************************************************************************)
(* C19: what the contract extractor finds reaches the engine: for a        *)
(* function text whose docstring contains "non-negative" or "positive",    *)
(* the statements verify_function passes to verify_statements hold a       *)
(* predicate named input_non_negative.                                     *)
(***************************************************************************)
C19_PreconditionReachesEngine ==
    (/\ FunctionReturned
     /\ \/ Contains(DocstringOf(call.code), "non-negative")
        \/ Contains(DocstringOf(call.code), "positive"))
        => \E p \in Literals(call.statements) : p.name = "input_non_negative"

(***************************************************************************)
(* C21: a verify_statements call on n statements asks the oracle one       *)
(* global query, followed by exactly n(n-1)/2 pair queries when the global *)
(* verdict is Unsat and by none when it is Sat or Unknown; no index pair   *)
(* is queried twice; a verify_reasoning_chain call asks exactly one query. *)
(***************************************************************************)
C21_QueryCount ==
    /\ StatementsReturned =>
           LET n == Len(call.statements)
           IN  /\ Len(verdicts) = 1 + Len(pairChecks)
               /\ verdicts[1] = "Unsat" =>
                      Len(pairChecks) = (n * (n - 1)) \div 2
               /\ verdicts[1] \in {"Sat", "Unknown"} => pairChecks = <<>>
               /\ \A k, l \in DOMAIN pairChecks :
                      (/\ pairChecks[k].i = pairChecks[l].i
                       /\ pairChecks[k].j = pairChecks[l].j) => k = l
    /\ ChainReturned => (Len(verdicts) = 1 /\ pairChecks = <<>>)

\* Three statements found unsatisfiable together: one global query and
\* three pair queries.
C21_Witness ==
    /\ StatementsReturned
    /\ Len(call.statements) = 3
    /\ verdicts[1] = "Unsat"
    /\ Len(verdicts) = 4
    /\ Len(pairChecks) = 3

(***************************************************************************)
(* C22: during the localization pass of verify_statements the registry     *)
(* built for the global check is neither cleared nor extended: its key set *)
(* is the same before and after every pair check and at the end of the     *)
(* call, every constant of a pair check is the one the registry holds for  *)
(* its formatted name, each pair is asserted into a fresh solver that      *)
(* holds that pair's two formulas only, and the verifier's own solver      *)
(* still holds the assertions of the global check and nothing else.        *)
(***************************************************************************)
\* The formatted names the global check registered.
GlobalKeys == { Format(p) : p \in Literals(call.statements) }

C22_RegistryFrame ==
    (StatementsReturned /\ verdicts[1] = "Unsat") =>
        /\ DOMAIN predicates = GlobalKeys
        /\ \A name \in DOMAIN predicates : predicates[name] = BoolConst(name)
        /\ \A k \in DOMAIN pairChecks :
               /\ pairChecks[k].before = GlobalKeys
               /\ pairChecks[k].after = GlobalKeys
               /\ pairChecks[k].temp_solver
                      = <<FormulaOf(call.statements[pairChecks[k].i]),
                          FormulaOf(call.statements[pairChecks[k].j])>>
               /\ \A f \in Range(pairChecks[k].temp_solver) :
                      ConstNames(f) \subseteq DOMAIN predicates
        /\ solver = [k \in DOMAIN call.statements |->
                        FormulaOf(call.statements[k])]

\* Three statements localized, one pair check not touching every atom of
\* the registry.
C22_Witness ==
    /\ StatementsReturned
    /\ verdicts[1] = "Unsat"
    /\ Len(pairChecks) = 3
    /\ Cardinality(DOMAIN predicates) >= 2
    /\ \E k \in DOMAIN pairChecks :
           /\ pairChecks[k].temp_solver # <<BoolTrue, BoolTrue>>
           /\ UNION { ConstNames(f) : f \in Range(pairChecks[k].temp_solver) }
                  # DOMAIN predicates
           /\ pairChecks[k].after = DOMAIN predicates

(***************************************************************************)
(* C23: a statement with an empty predicate list is the trivially true     *)
(* statement.  The oracle deciding each query, a list of statements and    *)
(* the list without one of its empty statements get the same is_consistent *)
(* from verify_statements; a list made only of empty statements is         *)
(* consistent; and an empty statement is named in a Contradiction only     *)
(* with a partner that no truth assignment to its atoms satisfies.         *)
(***************************************************************************)
\* The indices of the statements a Contradiction names.
NamedBy(contradiction) ==
    { <<i, j>> \in (DOMAIN call.statements) \X (DOMAIN call.statements) :
          /\ call.statements[i].id = contradiction.statement1
          /\ call.statements[j].id = contradiction.statement2 }

C23_EmptyStatementIsTrue ==
    StatementsReturned =>
        /\ Definite =>
               \A k \in DOMAIN call.statements :
                   call.statements[k].predicates = <<>> =>
                       ConsistentNext(Without(call.statements, k), {})
                           = result[1].is_consistent
        /\ (/\ Definite
            /\ \A k \in DOMAIN call.statements :
                   call.statements[k].predicates = <<>>)
               => result[1].is_consistent
        /\ \A n \in DOMAIN result[1].contradictions :
               \A pair \in NamedBy(result[1].contradictions[n]) :
                   /\ call.statements[pair[1]].predicates = <<>>
                          => ~HasModel(<<call.statements[pair[2]]>>)
                   /\ call.statements[pair[2]].predicates = <<>>
                          => ~HasModel(<<call.statements[pair[1]]>>)

(***************************************************************************)
(* C24, as stated: for every premise list P and every conclusion C whose   *)
(* literals each occur, with the same negation flag, in some premise of P, *)
(* verify_reasoning_chain(P, C) returns is_consistent = true with          *)
(* confidence 1.0.                                                         *)
(***************************************************************************)
\* Every literal of the conclusion is a literal of some premise.
ConclusionAmongPremises ==
    \A p \in Range(call.conclusion[1].predicates) :
        \E k \in DOMAIN call.statements :
            p \in Range(call.statements[k].predicates)

C24_Reflexive ==
    (ChainReturned /\ ConclusionAmongPremises) =>
        /\ result[1].is_consistent
        /\ result[1].confidence = 1

(***************************************************************************)
(* C24, amended: for every premise list P and every conclusion C whose     *)
(* literals each occur, with the same negation flag, in some premise of P, *)
(* verify_reasoning_chain(P, C) returns is_consistent = true with          *)
(* confidence 1.0 when the oracle decides the query.                       *)
(***************************************************************************)
C24_ReflexiveDecided ==
    (ChainReturned /\ ConclusionAmongPremises /\ Definite) =>
        /\ result[1].is_consistent
        /\ result[1].confidence = 1

\* Two premises that have a model, the conclusion a literal of one of them,
\* reported entailed.
C24_Witness ==
    /\ ChainReturned
    /\ Len(call.statements) = 2
    /\ HasModel(call.statements)
    /\ Satisfiable(SubSeq(solver, 1, 2))
    /\ call.conclusion[1].predicates # <<>>
    /\ ConclusionAmongPremises
    /\ verdicts[1] = "Unsat"
    /\ result[1].is_consistent
    /\ result[1].confidence = 1

(***************************************************************************)
(* C25: when some truth assignment to the atoms satisfies all premises,    *)
(* some premise holds the literal not-A and the conclusion holds the       *)
(* literal A, verify_reasoning_chain (the oracle deciding the query)       *)
(* returns is_consistent = false, confidence 1.0, no contradictions, and   *)
(* the counterexample proof message.                                       *)
(***************************************************************************)
\* A literal of the conclusion is denied by a literal of a premise.
ConclusionDenied ==
    \E p \in Range(call.conclusion[1].predicates) :
        /\ ~p.negated
        /\ \E q \in Literals(call.statements) :
               Atom(q) = Atom(p) /\ q.negated

C25_DeniedNotEntailed ==
    (/\ ChainReturned
     /\ Definite
     /\ HasModel(call.statements)
     /\ ConclusionDenied) =>
        /\ ~result[1].is_consistent
        /\ result[1].confidence = 1
        /\ result[1].contradictions = <<>>
        /\ result[1].proof = Some("Z3 found counterexample where premises are true but conclusion is false")

(***************************************************************************)
(* C26: atom identity is exactly the pair (name, args): within a call two  *)
(* predicates resolve to the same constant if and only if their names are  *)
(* equal and their args are equal element by element; predicates that      *)
(* differ in name or in args never share a constant, so an input that      *)
(* asserts P over args ["a","b"] and not-P over args ["a,b"], and nothing  *)
(* else about these atoms, is reported consistent (the oracle deciding the *)
(* query).                                                                 *)
(***************************************************************************)
C26_AtomIdentity ==
    StatementsReturned =>
        /\ \A p, q \in Literals(call.statements) :
               (predicates[Format(p)] = predicates[Format(q)])
                   <=> (p.name = q.name /\ p.args = q.args)
        /\ (/\ Definite
            /\ Literals(call.statements) = {P_a_b, NotP_ab})
               => result[1].is_consistent

(***************************************************************************)
(* C27, as stated: an input that holds a statement with both a literal and *)
(* its negation makes verify_statements return is_consistent = false, and  *)
(* that statement is named in a Contradiction with every other statement   *)
(* of the input, also with those that share no atom with it: with n        *)
(* statements at least n-1 records are returned, and with n = 1 none.      *)
(***************************************************************************)
\* A Contradiction names the i-th and the j-th statement, i < j.
Reported(i, j) ==
    \E n \in DOMAIN result[1].contradictions :
        /\ result[1].contradictions[n].statement1 = call.statements[i].id
        /\ result[1].contradictions[n].statement2 = call.statements[j].id

ReportedWithEveryOther(k) ==
    /\ \A j \in DOMAIN call.statements :
           /\ j < k => Reported(j, k)
           /\ j > k => Reported(k, j)
    /\ Len(result[1].contradictions) >= Len(call.statements) - 1
    /\ Len(call.statements) = 1 => result[1].contradictions = <<>>

C27_SelfContradictoryReported ==
    StatementsReturned =>
        \A k \in DOMAIN call.statements :
            Clash(<<call.statements[k]>>) =>
                /\ ~result[1].is_consistent
                /\ ReportedWithEveryOther(k)

(***************************************************************************)
(* C27, amended: an input that holds a statement with both a literal and   *)
(* its negation makes verify_statements return is_consistent = false, and  *)
(* when the oracle decides the global query and every pair query that      *)
(* statement is named in a Contradiction with every other statement of the *)
(* input, also with those that share no atom with it: with n statements at *)
(* least n-1 records are returned, and with n = 1 none.                    *)
(***************************************************************************)
C27_SelfContradictoryReportedDecided ==
    StatementsReturned =>
        \A k \in DOMAIN call.statements :
            Clash(<<call.statements[k]>>) =>
                /\ ~result[1].is_consistent
                /\ UndecidedOf(verdicts) = {} => ReportedWithEveryOther(k)

\* Three statements, the first one holding P and not P, the others sharing
\* no atom with it, and a record for each of the two.
C27_Witness ==
    /\ StatementsReturned
    /\ Len(call.statements) = 3
    /\ Clash(<<call.statements[1]>>)
    /\ \A j \in 2..3 :
           /\ call.statements[j].predicates # <<>>
           /\ Atoms(<<call.statements[j]>>) \cap Atoms(<<call.statements[1]>>)
                  = {}
    /\ UndecidedOf(verdicts) = {}
    /\ Reported(1, 2)
    /\ Reported(1, 3)
    /\ ~Reported(2, 3)

(***************************************************************************)
(* C28, as stated: a conclusion with an empty predicate list, which is     *)
(* what parse_statement returns for a text matching none of its patterns   *)
(* (the sentences of test_valid_reasoning), is reported entailed by every  *)
(* premise list: verify_reasoning_chain returns is_consistent = true with  *)
(* confidence 1.0 whatever the premises are.                               *)
(***************************************************************************)
\* The sentences of test_valid_reasoning match no pattern.
ValidReasoningUnparsed ==
    /\ ParsePredicates(ValidReasoningConclusion) = <<>>
    /\ \A k \in DOMAIN ValidReasoningPremises :
           ParsePredicates(ValidReasoningPremises[k]) = <<>>

C28_EmptyConclusionEntailed ==
    /\ ValidReasoningUnparsed
    /\ (ReasoningReturned /\ call.conclusion[1].predicates = <<>>) =>
           (result[1].is_consistent /\ result[1].confidence = 1)

(***************************************************************************)
(* C28, amended: a conclusion with an empty predicate list, which is what  *)
(* parse_statement returns for a text matching none of its patterns (the   *)
(* sentences of test_valid_reasoning), is reported entailed by every       *)
(* premise list when the oracle decides the query: verify_reasoning_chain  *)
(* then returns is_consistent = true with confidence 1.0 whatever the      *)
(* premises are.                                                           *)
(***************************************************************************)
C28_EmptyConclusionEntailedDecided ==
    /\ ValidReasoningUnparsed
    /\ (/\ ReasoningReturned
        /\ call.conclusion[1].predicates = <<>>
        /\ Definite) =>
           (result[1].is_consistent /\ result[1].confidence = 1)

\* "Socrates is mortal" reported entailed by two premises that say nothing
\* about it and have a model.
C28_Witness ==
    /\ ReasoningReturned
    /\ call.conclusion[1].text = ValidReasoningConclusion
    /\ call.conclusion[1].predicates = <<>>
    /\ Len(call.statements) = 2
    /\ \A k \in DOMAIN call.statements : call.statements[k].predicates # <<>>
    /\ HasModel(call.statements)
    /\ verdicts[1] = "Unsat"
    /\ result[1].is_consistent
    /\ result[1].confidence = 1

(***************************************************************************)
(* C29: with a definite oracle, verify_function returns is_coherent =      *)
(* false if and only if the extracted docstring contains "sorted", in any  *)
(* letter case, and some line that starts with "return " contains "[::-1]" *)
(* and does not contain "sorted("; the keywords "ascending",               *)
(* "non-negative" and "positive", assert lines and the other return lines  *)
(* do not change the verdict.                                              *)
(***************************************************************************)
\* The docstring the extractor found in the text, "" when it found none.
ExtractedDocstring(code) ==
    IF ExtractContractFromText(code).docstring = None THEN ""
    ELSE ExtractContractFromText(code).docstring[1]

\* Some return line reverses and does not sort.
ReversedReturn(code) ==
    \E line \in ReturnLines(code) :
        Contains(line, "[::-1]") /\ ~Contains(line, "sorted(")

EngineResult ==
    VerifyStatements(EmptyRegistry, NewSolver, call.statements,
                     UndecidedOf(verdicts)).result

C30_ViolationsMirrorVerdict ==
    FunctionReturned =>
        /\ result[1].violations # <<>> <=> ~result[1].is_coherent
        /\ ~result[1].is_coherent =>
               /\ Len(result[1].violations) = 1
               /\ result[1].violations[1].violation_type
                      = "ContractImplementationMismatch"
               /\ result[1].violations[1].location
                      = ExtractContractFromText(call.code).name
        /\ result[1].is_coherent = EngineResult.is_consistent
        /\ result[1].confidence = EngineResult.confidence
        /\ verdicts[1] = "Unknown" =>
               /\ ~result[1].is_coherent
               /\ result[1].confidence = 0
               /\ Len(result[1].violations) = 1

\* A function the oracle gave up on: incoherent, confidence 0.0, one
\* violation at sort_list.
C30_Witness ==
    /\ FunctionReturned
    /\ verdicts[1] = "Unknown"
    /\ ~result[1].is_coherent
    /\ result[1].confidence = 0
    /\ Len(result[1].violations) = 1
    /\ result[1].violations[1].location = "sort_list"
====
